---- MODULE Spec2Model ----
(***************************************************************************)
(* SosmedUploader: the AutoUploader message handler (src/main.py), the     *)
(* daily quota limiter (src/services/redis_limits.py), the R2 transient    *)
(* store (src/services/r2_service.py), the Instagram client                *)
(* (src/services/instagram_client.py) and the image processor              *)
(* (src/services/image_processor.py), as one state machine.                *)
(*                                                                         *)
(* Every await of the handler is one step of a run; the external services  *)
(* (Redis, R2, the Graph API) answer nondeterministically.  Each run keeps *)
(* the ordered log of the calls it made for the event it is handling.      *)
(***************************************************************************)
EXTENDS Integers, Sequences, FiniteSets, TLC

\* ------------------------------------------------------------------ bounds
NumRuns == 2        \* handler invocations that may exist side by side
MaxEvents == 3      \* events delivered in one behaviour
MaxTime == 3        \* last clock tick
DayLen == 2         \* clock ticks per UTC calendar day
GeomMaxW == 250                 \* widths 1..GeomMaxW are probed against height 100
NumStoppers == 3    \* tasks that may call stop()
MaxStopCalls == 4   \* calls of stop() in one behaviour

\* ------------------------------------------------------- program constants
DAILY_LIMIT == 2                \* config.REDIS_LIMIT
INSTAGRAM_WIDTH == 1080
INSTAGRAM_PORTRAIT_HEIGHT == 1350
INSTAGRAM_SQUARE_HEIGHT == 1080
UPLOAD_VIDEO_PARAMS == 2        \* upload_video(self, video_url, caption)
UPLOAD_VIDEO_ARGS == 3          \* video_url, video_caption, 5
\* Mutant: the TTL is half a day.
EXPIRE_HALF_DAY == DayLen \div 2

EXPIRE_SECONDS == DayLen        \* 60 * 60 * 24 seconds = one day of ticks

Runs == 1 .. NumRuns
Days == 0 .. (MaxTime \div DayLen)
Stoppers == 1 .. NumStoppers

\* ------------------------------------------------------------------ strings
\* A string is a sequence of tokens; "/" is the path separator.
StartsWith(s, p) ==
    /\ Len(p) <= Len(s)
    /\ SubSeq(s, 1, Len(p)) = p

\* str.replace(old, "", 1): the first occurrence of old, anywhere, is removed.
ReplaceFirst(s, old) ==
    LET hits == { i \in 1 .. (Len(s) - Len(old) + 1) :
                      SubSeq(s, i, i + Len(old) - 1) = old }
    IN  IF hits = {} \/ old = <<>>
        THEN s
        ELSE LET i == CHOOSE j \in hits : \A k \in hits : j <= k
             IN  SubSeq(s, 1, i - 1) \o SubSeq(s, i + Len(old), Len(s))

\* R2UploaderService.public_base, after rstrip("/")
public_base == <<"media">>

\* ------------------------------------------------------------------- images
\* kind: "none" (missing or empty string), "badb64" (not base64),
\* "garbage" (base64 of bytes that are no image), "image".
NoImage == [kind |-> "none", w |-> 0, h |-> 0, adapted |-> FALSE]
Img(w, h) == [kind |-> "image", w |-> w, h |-> h, adapted |-> FALSE]
Garbage == [kind |-> "garbage", w |-> 0, h |-> 0, adapted |-> FALSE]
BadB64 == [kind |-> "badb64", w |-> 0, h |-> 0, adapted |-> FALSE]

SampleImages == { Img(1200, 1200), Img(1200, 400), Img(400, 1200), Garbage, BadB64 }

\* Mutant: the two limits themselves are not valid.
is_valid_for_instagram_strict(w, h) ==
    /\ 4 * h < 5 * w
    /\ 100 * w < 191 * h

\* MIN_ASPECT_RATIO <= width / height <= MAX_ASPECT_RATIO, with 0.8 = 4/5 and
\* 1.91 = 191/100 (cross-multiplied: exact for the sizes used here).
is_valid_for_instagram(w, h) ==
    /\ 4 * h <= 5 * w
    /\ 100 * w <= 191 * h

\* Mutant: the info dict carries no validity flag, so every image is processed.
get_image_info_no_flag(img) ==
    IF img.kind = "image" /\ img.h > 0
    THEN [empty |-> FALSE, width |-> img.w, height |-> img.h,
          is_valid_for_instagram |-> FALSE]
    ELSE [empty |-> TRUE, width |-> 0, height |-> 0,
          is_valid_for_instagram |-> FALSE]

\* get_image_info: the info dict, or {} when the content cannot be decoded.
get_image_info(img) ==
    IF img.kind = "image" /\ img.h > 0
    THEN [empty |-> FALSE, width |-> img.w, height |-> img.h,
          is_valid_for_instagram |-> is_valid_for_instagram(img.w, img.h)]
    ELSE [empty |-> TRUE, width |-> 0, height |-> 0,
          is_valid_for_instagram |-> FALSE]

\* int(a / (w / h)) in binary floating point: the division is rounded twice
\* before int() truncates.  The result is the floor of a*h/w whenever a*h/w is
\* not an integer; when it is one, the computed quotient can fall just below
\* it (1080 / (900 / 700) gives 839.99..., truncated to 839), so both
\* truncations are results the build can produce.
truncated_quotient(a, w, h) ==
    IF (a * h) % w = 0
    THEN { (a * h) \div w - 1, (a * h) \div w }
    ELSE { (a * h) \div w }

\* Mutant: the height of a too wide image is not capped at the 1.91 limit.
calculate_target_size_uncapped(w, h) ==
    IF 95 * h <= 100 * w /\ 100 * w <= 105 * h
    THEN { <<INSTAGRAM_WIDTH, INSTAGRAM_SQUARE_HEIGHT>> }
    ELSE IF 100 * w < 95 * h
    THEN { <<INSTAGRAM_WIDTH, INSTAGRAM_PORTRAIT_HEIGHT>> }
    ELSE { <<INSTAGRAM_WIDTH, t>> : t \in truncated_quotient(INSTAGRAM_WIDTH, w, h) }

\* Mutant: the square band excludes its two boundaries.
calculate_target_size_open(w, h) ==
    IF 95 * h < 100 * w /\ 100 * w < 105 * h
    THEN { <<INSTAGRAM_WIDTH, INSTAGRAM_SQUARE_HEIGHT>> }
    ELSE IF 100 * w < 95 * h
    THEN { <<INSTAGRAM_WIDTH, INSTAGRAM_PORTRAIT_HEIGHT>> }
    ELSE IF 100 * w <= 191 * h
    THEN { <<INSTAGRAM_WIDTH, t>> : t \in truncated_quotient(INSTAGRAM_WIDTH, w, h) }
    ELSE { <<INSTAGRAM_WIDTH, (INSTAGRAM_WIDTH * 100) \div 191>> }

\* _calculate_target_size in "auto" mode: the sizes it can return (one, but
\* for the floating-point quotient of the landscape band).
calculate_target_size(w, h) ==
    IF 95 * h <= 100 * w /\ 100 * w <= 105 * h
    THEN { <<INSTAGRAM_WIDTH, INSTAGRAM_SQUARE_HEIGHT>> }
    ELSE IF 100 * w < 95 * h
    THEN { <<INSTAGRAM_WIDTH, INSTAGRAM_PORTRAIT_HEIGHT>> }
    ELSE IF 100 * w <= 191 * h
    THEN { <<INSTAGRAM_WIDTH, t>> : t \in truncated_quotient(INSTAGRAM_WIDTH, w, h) }
    ELSE { <<INSTAGRAM_WIDTH, (INSTAGRAM_WIDTH * 100) \div 191>> }

\* process_base64_image(image, "pad", 95): the re-encoded canvas, which has
\* the target size; raises (ok = FALSE) when the content cannot be decoded.
process_base64_image(img) ==
    IF img.kind = "image" /\ img.h > 0
    THEN { [ok |-> TRUE,
            image |-> [kind |-> "image", w |-> t[1], h |-> t[2], adapted |-> TRUE]] :
              t \in calculate_target_size(img.w, img.h) }
    ELSE { [ok |-> FALSE, image |-> img] }

\* int(x * (n / d)) in binary floating point: as for truncated_quotient, an
\* exact product can come out just below its value (161 * (1350 / 161) is
\* truncated to 1349).
truncated_product(x, n, d) ==
    IF (x * n) % d = 0
    THEN { (x * n) \div d - 1, (x * n) \div d }
    ELSE { (x * n) \div d }

\* _resize_and_pad: scale = min(tw / w, th / h); the scaled size is truncated
\* by int(); the scaled image is pasted at the floor-halved margins on a new
\* canvas of the target size.  (The sizes are computed before image.resize
\* is asked for them.)
resize_and_pad(w, h, tw, th) ==
    LET by_width == tw * h <= th * w
        n == IF by_width THEN tw ELSE th
        d == IF by_width THEN w ELSE h
    IN  { [new_width |-> nw, new_height |-> nh,
           paste_x |-> (tw - nw) \div 2, paste_y |-> (th - nh) \div 2,
           canvas_w |-> tw, canvas_h |-> th] :
             nw \in truncated_product(w, n, d), nh \in truncated_product(h, n, d) }

\* ----------------------------------------------------------------- payloads
NoData == [present |-> FALSE, is_job_vacancy |-> FALSE]
JobData(b) == [present |-> TRUE, is_job_vacancy |-> b]

VideoPaths ==
    { <<>>,                               \* missing or empty path
      <<"media", "/", "v">>,              \* an object of this store
      <<"other", "/", "v">>,              \* a URL of another host
      <<"media", "/">>,                   \* the public base and nothing else
      <<"media", "x", "/", "v">> }        \* a host that only starts like the base

Payload(t, path, data, img) ==
    [type |-> t, video_path |-> path, extracted_data |-> data, image |-> img]

Payloads ==
    { Payload("video_ready", p, NoData, NoImage) : p \in VideoPaths }
    \cup { Payload("video_ready", <<"media", "/", "v">>, JobData(TRUE), Img(1200, 1200)) }
    \cup { Payload("other", <<>>, JobData(TRUE), Img(1200, 1200)) }
    \cup { Payload("job_vacancy", <<>>, d, Img(1200, 1200)) :
               d \in { NoData, JobData(FALSE) } }
    \cup { Payload("job_vacancy", <<>>, JobData(TRUE), i) :
               i \in SampleImages \cup { NoImage } }

NoPayload == Payload("other", <<>>, NoData, NoImage)

\* -------------------------------------------------------------------- state
VARIABLES
    started,            \* AutoUploader.start() has run
    storage,            \* self.storage is set
    image_processor,    \* self.image_processor is set
    ig_uploader,        \* self.ig_uploader is set (None after a failed test_connection)
    now,                \* the clock, in ticks
    store,              \* Redis: day key -> [count, ttl, exp]
    objects,            \* R2: number of objects put so far (each gets a fresh key)
    received,           \* events delivered so far
    pc,                 \* per run: where the handler is
    payload,            \* per run: the event being handled
    loc,                \* per run: the handler's locals
    calls,              \* per run: the calls made for this event, in order
    increments,         \* increment_daily_post calls started, in total
    confirmed,          \* publish results with a media id, in total
    incr_returns,       \* per day key: the values redis.incr returned, in order
    ttl_set_by,         \* per day key: the counts of the calls that set its TTL
    probe,              \* a direct call of the image processor: input and results
    ig,                 \* a direct call of InstagramUploader.upload_image
    shutdown            \* AutoUploader.stop: the flag, the lock and its callers

vars == <<started, storage, image_processor, ig_uploader, now, store, objects,
          received, pc, payload, loc, calls, increments, confirmed,
          incr_returns, ttl_set_by, probe, ig, shutdown>>

history == <<incr_returns, ttl_set_by>>

config == <<started, storage, image_processor, ig_uploader>>

\* The probe: get_image_info and process_base64_image called directly on an
\* image of w x h; valid is the flag reported, tw x th the target size, and
\* the rest what _resize_and_pad computes for that target.
NoProbe ==
    [stage |-> "none", w |-> 0, h |-> 0, valid |-> FALSE, tw |-> 0, th |-> 0,
     new_width |-> 0, new_height |-> 0, paste_x |-> 0, paste_y |-> 0,
     canvas_w |-> 0, canvas_h |-> 0]

\* A call of upload_image on its own: the URL passed, the requests sent so
\* far, and what the two endpoints answered.
NoIg ==
    [pc |-> "none", url |-> 0, requests |-> <<>>,
     container_status |-> 0, container_id |-> 0,
     publish_status |-> 0, result_id |-> 0, error |-> "none"]

\* stop(): nobody has called it.
NoShutdown ==
    [stopped |-> FALSE, lock |-> 0, pc |-> [c \in Stoppers |-> "idle"], calls |-> 0,
     event_set_by |-> <<>>, subscriber_stopped_by |-> <<>>,
     redis_closed_by |-> <<>>]

\* ------------------------------------------------------------------- quota
\* Mutant: the key changes only every second day.
today_key_coarse == now \div (2 * DayLen)

\* _today_key: the key is the UTC date of the clock.
today_key == now \div DayLen

NoKey == [count |-> 0, ttl |-> FALSE, exp |-> 0]

\* redis.get, int(value); a missing key reads as 0.
get_daily_post_count(s, k) == s[k].count

\* Mutant: the limit is compared with <= instead of <.
can_post_today_inclusive(s, k) == get_daily_post_count(s, k) <= DAILY_LIMIT

can_post_today(s, k) == get_daily_post_count(s, k) < DAILY_LIMIT

\* redis.incr: atomic; creates the key without a TTL.
redis_incr(s, k) == [s EXCEPT ![k].count = @ + 1]

\* redis.expire: no effect on a missing key.
redis_expire(s, k, t) ==
    IF s[k].count = 0 THEN s
    ELSE [s EXCEPT ![k].ttl = TRUE, ![k].exp = t + EXPIRE_SECONDS]

\* Mutant: every increment sets the TTL again.
first_increment_always(count) == count >= 1

\* "if count == 1": the first increment of the key sets the TTL.
first_increment(count) == count = 1

\* Redis drops a key once its TTL has run out.
Expired(s, t) ==
    [k \in Days |-> IF s[k].ttl /\ s[k].exp <= t THEN NoKey ELSE s[k]]

\* --------------------------------------------------------------- call log
NoLocals ==
    [image_base64 |-> NoImage, image_url |-> 0, video_url |-> <<>>,
     key |-> 0, count |-> 0, outcome |-> "none"]

Call(op, res) ==
    [op |-> op, res |-> res, url |-> 0, path |-> <<>>, body |-> NoImage,
     key |-> 0, n |-> 0, reqs |-> <<>>, objkey |-> <<>>]

Log(r, c) == [calls EXCEPT ![r] = Append(@, c)]

Finish(r, how) ==
    /\ pc' = [pc EXCEPT ![r] = "done"]
    /\ loc' = [loc EXCEPT ![r].outcome = how]

Goto(r, where) == pc' = [pc EXCEPT ![r] = where]

\* --------------------------------------------------------------------- init
Init ==
    /\ started = FALSE
    /\ storage = FALSE
    /\ image_processor = FALSE
    /\ ig_uploader = FALSE
    /\ now = 0
    /\ store = [k \in Days |-> NoKey]
    /\ objects = 0
    /\ received = 0
    /\ pc = [r \in Runs |-> "idle"]
    /\ payload = [r \in Runs |-> NoPayload]
    /\ loc = [r \in Runs |-> NoLocals]
    /\ calls = [r \in Runs |-> <<>>]
    /\ increments = 0
    /\ confirmed = 0
    /\ incr_returns = [k \in Days |-> <<>>]
    /\ ttl_set_by = [k \in Days |-> <<>>]
    /\ probe = NoProbe
    /\ ig = NoIg
    /\ shutdown = NoShutdown

\* AutoUploader.start: the services are built, the Instagram uploader is
\* dropped when its connection test fails, then the subscriber starts.  The
\* uploader is taken as constructed (start passes instagram_id= where
\* InstagramUploader.__init__ names the parameter ig_page_id).
Start ==
    /\ ~started
    /\ started' = TRUE
    /\ storage' = TRUE
    /\ image_processor' = TRUE
    /\ ig_uploader' \in BOOLEAN
    /\ UNCHANGED <<probe, ig, shutdown, now, store, objects, received, pc, payload, loc, calls,
                   increments, confirmed, history>>

\* Time passes; keys whose TTL ran out disappear.
Tick ==
    /\ now < MaxTime
    /\ now' = now + 1
    /\ store' = Expired(store, now + 1)
    /\ UNCHANGED <<probe, ig, shutdown, config, objects, received, pc, payload, loc, calls,
                   increments, confirmed, history>>

\* Mutant: the type of the envelope is not looked at.
validate_without_type(p) ==
    /\ p.extracted_data.present
    /\ p.extracted_data.is_job_vacancy
    /\ p.image.kind # "none"

\* Mutant: the is_job_vacancy flag is not looked at.
validate_without_flag(p) ==
    /\ p.type = "job_vacancy"
    /\ p.extracted_data.present
    /\ p.image.kind # "none"

\* ------------------------------------------------------------ the handler
\* _validate_job_vacancy_payload: TRUE when extracted_data is returned.
validate_job_vacancy_payload(p) ==
    /\ p.type = "job_vacancy"
    /\ p.extracted_data.present
    /\ p.extracted_data.is_job_vacancy
    /\ p.image.kind # "none"

\* The subscriber hands the handler one event at a time: a new event is
\* delivered when the handler has returned from the one before.
ConsumerFree(r) ==
    /\ r = 1
    /\ pc[r] \in { "idle", "done" }

\* Overlapping deliveries: a handler invocation is started for an event
\* whatever the earlier invocations are doing.
RunFree(r) == pc[r] = "idle"

\* Mutant: the video path is not checked before the video branch is taken.
EnterNoPathCheck(r, p) ==
    /\ started
    /\ received < MaxEvents
    /\ received' = received + 1
    /\ payload' = [payload EXCEPT ![r] = p]
    /\ calls' = [calls EXCEPT ![r] = <<>>]
    /\ IF p.type = "video_ready"
       THEN /\ pc' = [pc EXCEPT ![r] = "video_upload"]
            /\ loc' = [loc EXCEPT ![r] = [NoLocals EXCEPT !.video_url = p.video_path]]
       ELSE IF ~validate_job_vacancy_payload(p)
       THEN /\ pc' = [pc EXCEPT ![r] = "done"]
            /\ loc' = [loc EXCEPT ![r] = [NoLocals EXCEPT !.outcome = "dropped"]]
       ELSE /\ pc' = [pc EXCEPT ![r] = "quota_check"]
            /\ loc' = [loc EXCEPT ![r] = [NoLocals EXCEPT !.image_base64 = p.image]]
    /\ UNCHANGED <<probe, ig, shutdown, config, now, store, objects, increments, confirmed, history>>

\* _handle_payload up to its first await.
Enter(r, p) ==
    /\ started
    /\ received < MaxEvents
    /\ received' = received + 1
    /\ payload' = [payload EXCEPT ![r] = p]
    /\ calls' = [calls EXCEPT ![r] = <<>>]
    /\ IF p.type = "video_ready" /\ p.video_path = <<>>
       THEN /\ pc' = [pc EXCEPT ![r] = "done"]
            /\ loc' = [loc EXCEPT ![r] = [NoLocals EXCEPT !.outcome = "dropped"]]
       ELSE IF p.type = "video_ready"
       THEN /\ pc' = [pc EXCEPT ![r] = "video_upload"]
            /\ loc' = [loc EXCEPT ![r] = [NoLocals EXCEPT !.video_url = p.video_path]]
       ELSE IF ~validate_job_vacancy_payload(p)
       THEN /\ pc' = [pc EXCEPT ![r] = "done"]
            /\ loc' = [loc EXCEPT ![r] = [NoLocals EXCEPT !.outcome = "dropped"]]
       ELSE /\ pc' = [pc EXCEPT ![r] = "quota_check"]
            /\ loc' = [loc EXCEPT ![r] = [NoLocals EXCEPT !.image_base64 = p.image]]
    /\ UNCHANGED <<probe, ig, shutdown, config, now, store, objects, increments, confirmed, history>>

Receive == \E p \in Payloads : ConsumerFree(1) /\ Enter(1, p)

\* Mutant: a Redis error is caught like the ValueError of a malformed value
\* and read as a count of 0.
QuotaCheckFailOpen(r) ==
    /\ pc[r] = "quota_check"
    /\ \E ok \in BOOLEAN :
         LET k == today_key
             n == IF ok THEN get_daily_post_count(store, k) ELSE 0
             c == Call("redis_get", IF ok THEN "ok" ELSE "error")
         IN  /\ calls' = Log(r, [c EXCEPT !.key = k, !.n = n])
             /\ IF n >= DAILY_LIMIT
                THEN Finish(r, "limit")
                ELSE /\ Goto(r, "inspect")
                     /\ UNCHANGED loc
    /\ UNCHANGED <<probe, ig, shutdown, config, now, store, objects, received, payload, increments, confirmed, history>>

\* can_post_today: a Redis error leaves the handler as an exception.
QuotaCheck(r) ==
    /\ pc[r] = "quota_check"
    /\ \E ok \in BOOLEAN :
         LET k == today_key
             c == Call("redis_get", IF ok THEN "ok" ELSE "error")
         IN  /\ calls' = Log(r, [c EXCEPT !.key = k,
                                          !.n = IF ok THEN get_daily_post_count(store, k) ELSE 0])
             /\ IF ~ok
                THEN Finish(r, "raised")
                ELSE IF ~can_post_today(store, k)
                THEN Finish(r, "limit")
                ELSE /\ Goto(r, "inspect")
                     /\ UNCHANGED loc
    /\ UNCHANGED <<probe, ig, shutdown, config, now, store, objects, received, payload, increments, confirmed, history>>

\* STEP 1, first half: get_image_info; process only an image that is not
\* reported valid (an empty info dict reports nothing, so it is processed).
Inspect(r) ==
    /\ pc[r] = "inspect"
    /\ IF image_processor
          /\ ~get_image_info(loc[r].image_base64).is_valid_for_instagram
       THEN Goto(r, "normalize")
       ELSE Goto(r, "store")
    /\ UNCHANGED <<probe, ig, shutdown, config, now, store, objects, received, payload, loc, calls,
                   increments, confirmed, history>>

\* Mutant: a failed processing ends the handling of the event.
after_processing_failed_abort == "abort"

\* "except Exception: ... Continuing with original image"
after_processing_failed == "store"

\* STEP 1, second half: process_base64_image(image_base64, "pad", 95).
Normalize(r) ==
    /\ pc[r] = "normalize"
    /\ \E res \in process_base64_image(loc[r].image_base64) :
           IF res.ok
           THEN /\ loc' = [loc EXCEPT ![r].image_base64 = res.image]
                /\ Goto(r, "store")
           ELSE IF after_processing_failed = "store"
           THEN /\ Goto(r, "store")
                /\ UNCHANGED loc
           ELSE Finish(r, "processing_failed")
    /\ UNCHANGED <<probe, ig, shutdown, config, now, store, objects, received, payload, calls,
                   increments, confirmed, history>>

\* "except Exception: ... return  # Cannot continue without R2 URL"
after_upload_failed == "return"

\* Mutant: the URL is built before the upload and a failed upload is only
\* logged, so STEP 3 runs with a URL whose upload never completed.
StoreNotAwaited(r) ==
    /\ pc[r] = "store"
    /\ \E ok \in BOOLEAN :
         LET img == loc[r].image_base64
             done == img.kind # "badb64" /\ ok
         IN  /\ calls' = Log(r, [Call("upload_base64_image", IF done THEN "ok" ELSE "error")
                                     EXCEPT !.body = img,
                                            !.url = IF done THEN objects + 1 ELSE 0])
             /\ objects' = objects + 1
             /\ loc' = [loc EXCEPT ![r].image_url = objects + 1]
             /\ Goto(r, "publish")
    /\ UNCHANGED <<probe, ig, shutdown, config, now, store, received, payload, increments, confirmed, history>>

\* STEP 2: storage.upload_base64_image(image_base64).  b64decode raises on
\* content that is not base64, before any request; put_object may fail; the
\* URL returned names a fresh object.
Store(r) ==
    /\ pc[r] = "store"
    /\ IF ~storage
       THEN /\ Finish(r, "no_storage")
            /\ UNCHANGED <<calls, objects>>
       ELSE \E ok \in BOOLEAN :
              LET img == loc[r].image_base64
                  decoded == img.kind # "badb64"
                  done == decoded /\ ok
                  c == [Call("upload_base64_image", IF done THEN "ok" ELSE "error")
                            EXCEPT !.body = img,
                                   !.url = IF done THEN objects + 1 ELSE 0,
                                   !.reqs = IF decoded THEN <<"put_object">> ELSE <<>>]
              IN  /\ calls' = Log(r, c)
                  /\ objects' = IF done THEN objects + 1 ELSE objects
                  /\ IF done
                     THEN /\ loc' = [loc EXCEPT ![r].image_url = objects + 1]
                          /\ Goto(r, "publish")
                     ELSE IF after_upload_failed = "return"
                     THEN Finish(r, "store_failed")
                     ELSE /\ Goto(r, "publish")
                          /\ UNCHANGED loc
    /\ UNCHANGED <<probe, ig, shutdown, config, now, store, received, payload, increments, confirmed, history>>

\* Mutant: the quota is charged for every answer of the publish call.
has_media_id_any(res) == res \in { "id", "noid" }

\* "media_id = result.get('id'); if media_id:"
has_media_id(res) == res = "id"

\* "if self.ig_uploader and image_url:"
may_publish(uploader, url) == uploader /\ url # 0

\* InstagramUploader.upload_image: the container request, then the publish
\* request; either may fail, and the publish answer may carry no id.
UploadImageResults == { "container_failed", "publish_failed", "id", "noid" }

\* Mutant: a failed publish request is sent a second time.
upload_image_requests_retry(res) ==
    IF res = "container_failed" THEN <<"media">>
    ELSE IF res = "publish_failed" THEN <<"media", "media_publish", "media_publish">>
    ELSE <<"media", "media_publish">>

upload_image_requests(res) ==
    IF res = "container_failed" THEN <<"media">>
    ELSE <<"media", "media_publish">>

\* STEP 3: upload_image with the R2 URL; the quota is charged on a media id.
Publish(r) ==
    /\ pc[r] = "publish"
    /\ IF may_publish(ig_uploader, loc[r].image_url)
       THEN \E res \in UploadImageResults :
              /\ calls' = Log(r, [Call("upload_image", res)
                                     EXCEPT !.url = loc[r].image_url,
                                            !.reqs = upload_image_requests(res)])
              /\ confirmed' = IF res = "id" THEN confirmed + 1 ELSE confirmed
              /\ IF res \in { "container_failed", "publish_failed" }
                 THEN Finish(r, "publish_failed")
                 ELSE IF has_media_id(res)
                 THEN /\ Goto(r, "incr")
                      /\ UNCHANGED loc
                 ELSE Finish(r, "no_media_id")
       ELSE /\ Finish(r, "skipped")
            /\ UNCHANGED <<calls, confirmed>>
    /\ UNCHANGED <<probe, ig, shutdown, config, now, store, objects, received, payload, increments, history>>

\* increment_daily_post, up to the answer of redis.incr.
Incr(r) ==
    /\ pc[r] = "incr"
    /\ increments' = increments + 1
    /\ \E ok \in BOOLEAN :
         LET k == today_key
             s == IF ok THEN redis_incr(store, k) ELSE store
             n == s[k].count
         IN  /\ store' = s
             /\ incr_returns' = IF ok THEN [incr_returns EXCEPT ![k] = Append(@, n)]
                                 ELSE incr_returns
             /\ calls' = Log(r, [Call("redis_incr", IF ok THEN "ok" ELSE "error")
                                     EXCEPT !.key = k, !.n = IF ok THEN n ELSE 0])
             /\ IF ~ok
                THEN Finish(r, "increment_failed")
                ELSE IF first_increment(n)
                THEN /\ Goto(r, "expire")
                     /\ loc' = [loc EXCEPT ![r].key = k, ![r].count = n]
                ELSE /\ pc' = [pc EXCEPT ![r] = "done"]
                     /\ loc' = [loc EXCEPT ![r].key = k, ![r].count = n,
                                           ![r].outcome = "published"]
    /\ UNCHANGED <<probe, ig, shutdown, config, now, objects, received, payload, confirmed, ttl_set_by>>

\* increment_daily_post, the TTL of the first increment.
Expire(r) ==
    /\ pc[r] = "expire"
    /\ \E ok \in BOOLEAN :
         /\ store' = IF ok THEN redis_expire(store, loc[r].key, now) ELSE store
         /\ ttl_set_by' = IF ok THEN [ttl_set_by EXCEPT ![loc[r].key] = Append(@, loc[r].count)]
                           ELSE ttl_set_by
         /\ calls' = Log(r, [Call("redis_expire", IF ok THEN "ok" ELSE "error")
                                 EXCEPT !.key = loc[r].key])
         /\ Finish(r, IF ok THEN "published" ELSE "expire_failed")
    /\ UNCHANGED <<probe, ig, shutdown, config, now, objects, received, payload, increments, confirmed, incr_returns>>

\* ---------------------------------------------------------------- video
\* The call binds when the arguments passed match the parameters declared.
upload_video_binds == UPLOAD_VIDEO_ARGS = UPLOAD_VIDEO_PARAMS

UploadVideoResults == { "container_failed", "publish_failed", "id" }

\* Mutant: the cleanup is not in a finally clause, so a failed upload skips it.
after_video_upload_no_finally(res) ==
    IF res \in { "none", "id" } THEN "video_cleanup" ELSE "raise"

\* "except Exception: log ... finally: clean up"
after_video_upload(res) == "video_cleanup"

\* _handle_video_payload, the Instagram part.
VideoUpload(r) ==
    /\ pc[r] = "video_upload"
    /\ IF ~ig_uploader
       THEN /\ Goto(r, after_video_upload("none"))
            /\ UNCHANGED <<calls, loc>>
       ELSE \E out \in UploadVideoResults :
              LET res == IF upload_video_binds THEN out ELSE "TypeError"
                  reqs == IF res = "TypeError" THEN <<>>
                          ELSE IF res = "container_failed" THEN <<"media">>
                          ELSE <<"media", "media_publish">>
              IN  /\ calls' = Log(r, [Call("upload_video", res)
                                          EXCEPT !.path = loc[r].video_url,
                                                 !.reqs = reqs])
                  /\ IF after_video_upload(res) = "video_cleanup"
                     THEN /\ Goto(r, "video_cleanup")
                          /\ UNCHANGED loc
                     ELSE Finish(r, "raised")
    /\ UNCHANGED <<probe, ig, shutdown, config, now, store, objects, received, payload, increments, confirmed, history>>

\* R2UploaderService.clean_video: the object key of a URL of this store.
clean_video_key(url) == ReplaceFirst(url, public_base \o <<"/">>)

clean_video_rejects(url) ==
    \/ ~StartsWith(url, public_base)
    \/ clean_video_key(url) = <<>>

\* _handle_video_payload, the cleanup; then the handler falls through to the
\* job vacancy validation.
VideoCleanup(r) ==
    /\ pc[r] = "video_cleanup"
    /\ IF ~storage
       THEN UNCHANGED calls
       ELSE \E ok \in BOOLEAN :
              LET url == loc[r].video_url
                  rejected == clean_video_rejects(url)
                  res == IF rejected THEN "ValueError"
                         ELSE IF ok THEN "deleted" ELSE "RuntimeError"
              IN  calls' = Log(r, [Call("clean_video", res)
                                      EXCEPT !.path = url,
                                             !.objkey = IF rejected THEN <<>>
                                                        ELSE clean_video_key(url),
                                             !.reqs = IF rejected THEN <<>>
                                                      ELSE <<"delete_object">>])
    /\ IF validate_job_vacancy_payload(payload[r])
       THEN /\ Goto(r, "quota_check")
            /\ loc' = [loc EXCEPT ![r].image_base64 = payload[r].image]
       ELSE Finish(r, "dropped")
    /\ UNCHANGED <<probe, ig, shutdown, config, now, store, objects, received, payload, increments, confirmed, history>>

\* ------------------------------------------------------------ specification
Step(r) ==
    \/ QuotaCheck(r)
    \/ Inspect(r)
    \/ Normalize(r)
    \/ Store(r)
    \/ Publish(r)
    \/ Incr(r)
    \/ Expire(r)
    \/ VideoUpload(r)
    \/ VideoCleanup(r)

Next ==
    \/ Start
    \/ Tick
    \/ Receive
    \/ \E r \in Runs : Step(r)

Spec == Init /\ [][Next]_vars

\* Overlapping handler runs: the subscriber starts a handler for an event
\* while earlier ones are still waiting for an answer.
\* The events are eligible job vacancies whose image needs no processing.
OverlapPayloads == { Payload("job_vacancy", <<>>, JobData(TRUE), Img(1200, 1200)) }

ReceiveOverlapping ==
    \E r \in Runs : \E p \in OverlapPayloads : RunFree(r) /\ Enter(r, p)

JobStep(r) ==
    \/ QuotaCheck(r)
    \/ Inspect(r)
    \/ Store(r)
    \/ Publish(r)
    \/ Incr(r)
    \/ Expire(r)

NextOverlap ==
    \/ Start
    \/ Tick
    \/ ReceiveOverlapping
    \/ \E r \in Runs : JobStep(r)

SpecOverlap == Init /\ [][NextOverlap]_vars

\* The same overlap later in a day, after a restart of the process: Redis
\* and R2 still hold what the DAILY_LIMIT - 1 events published at the start
\* of the day left behind (the store the sequential handler reaches after
\* them), and AutoUploader is constructed anew.
InitAfterPosts ==
    /\ started = FALSE
    /\ storage = FALSE
    /\ image_processor = FALSE
    /\ ig_uploader = FALSE
    /\ now = 0
    /\ store = [k \in Days |->
                  IF k = 0
                  THEN [count |-> DAILY_LIMIT - 1, ttl |-> TRUE, exp |-> EXPIRE_SECONDS]
                  ELSE NoKey]
    /\ objects = DAILY_LIMIT - 1
    /\ received = 0
    /\ pc = [r \in Runs |-> "idle"]
    /\ payload = [r \in Runs |-> NoPayload]
    /\ loc = [r \in Runs |-> NoLocals]
    /\ calls = [r \in Runs |-> <<>>]
    /\ increments = DAILY_LIMIT - 1
    /\ confirmed = DAILY_LIMIT - 1
    /\ incr_returns = [k \in Days |->
                         IF k = 0 THEN [i \in 1..(DAILY_LIMIT - 1) |-> i] ELSE <<>>]
    /\ ttl_set_by = [k \in Days |-> IF k = 0 THEN <<1>> ELSE <<>>]
    /\ probe = NoProbe
    /\ ig = NoIg
    /\ shutdown = NoShutdown

SpecOverlapLate == InitAfterPosts /\ [][NextOverlap]_vars

\* ----------------------------------------------------------- image processor
\* The image processor on its own: an image of any size is inspected and then
\* processed, whatever the inspection reported.
GeomSizes ==
    { <<w, 100>> : w \in 1..GeomMaxW }
    \cup { <<4, 5>>, <<1080, 1350>>, <<1200, 1200>>, <<1200, 400>>, <<400, 1200>>,
           <<900, 700>>, <<1300, 1000>>, <<1051, 1000>>, <<949, 1000>>,
           <<1911, 1000>>, <<799, 1000>>, <<1, 3000>>, <<3000, 1>> }

InitGeom ==
    /\ started = FALSE
    /\ storage = FALSE
    /\ image_processor = FALSE
    /\ ig_uploader = FALSE
    /\ now = 0
    /\ store = [k \in Days |-> NoKey]
    /\ objects = 0
    /\ received = 0
    /\ pc = [r \in Runs |-> "idle"]
    /\ payload = [r \in Runs |-> NoPayload]
    /\ loc = [r \in Runs |-> NoLocals]
    /\ calls = [r \in Runs |-> <<>>]
    /\ increments = 0
    /\ confirmed = 0
    /\ incr_returns = [k \in Days |-> <<>>]
    /\ ttl_set_by = [k \in Days |-> <<>>]
    /\ probe \in { [NoProbe EXCEPT !.stage = "input", !.w = s[1], !.h = s[2]] :
                     s \in GeomSizes }
    /\ ig = NoIg
    /\ shutdown = NoShutdown

handler == <<config, now, store, objects, received, pc, payload, loc, calls,
             increments, confirmed, history>>

\* get_image_info on the probed image.
ProbeInspect ==
    /\ probe.stage = "input"
    /\ probe' = [probe EXCEPT
                   !.stage = "inspected",
                   !.valid = get_image_info(Img(probe.w, probe.h)).is_valid_for_instagram]
    /\ UNCHANGED <<handler, ig, shutdown>>

\* process_base64_image on the probed image: the canvas it returns.
ProbeProcess ==
    /\ probe.stage = "inspected"
    /\ \E res \in process_base64_image(Img(probe.w, probe.h)) :
           /\ res.ok
           /\ probe' = [probe EXCEPT !.stage = "sized",
                                     !.tw = res.image.w, !.th = res.image.h]
    /\ UNCHANGED <<handler, ig, shutdown>>

\* _resize_and_pad on the probed image and the target size chosen for it.
ProbePad ==
    /\ probe.stage = "sized"
    /\ \E p \in resize_and_pad(probe.w, probe.h, probe.tw, probe.th) :
           probe' = [probe EXCEPT !.stage = "padded",
                                  !.new_width = p.new_width,
                                  !.new_height = p.new_height,
                                  !.paste_x = p.paste_x, !.paste_y = p.paste_y,
                                  !.canvas_w = p.canvas_w, !.canvas_h = p.canvas_h]
    /\ UNCHANGED <<handler, ig, shutdown>>

NextGeom ==
    \/ ProbeInspect
    \/ ProbeProcess
    \/ ProbePad

SpecGeom == InitGeom /\ [][NextGeom]_vars

\* -------------------------------------------------------- upload_image alone
\* The handler's state while a service is looked at on its own.
HandlerIdle ==
    /\ started = FALSE
    /\ storage = FALSE
    /\ image_processor = FALSE
    /\ ig_uploader = FALSE
    /\ now = 0
    /\ store = [k \in Days |-> NoKey]
    /\ objects = 0
    /\ received = 0
    /\ pc = [r \in Runs |-> "idle"]
    /\ payload = [r \in Runs |-> NoPayload]
    /\ loc = [r \in Runs |-> NoLocals]
    /\ calls = [r \in Runs |-> <<>>]
    /\ increments = 0
    /\ confirmed = 0
    /\ incr_returns = [k \in Days |-> <<>>]
    /\ ttl_set_by = [k \in Days |-> <<>>]

\* What the Graph API can answer: 200, another status that is not an error,
\* or an error status; a JSON body with an "id" (1, 2) or without one (0).
HttpStatuses == { 200, 202, 400 }
BodyIds == { 0, 1, 2 }

\* requests.Response.raise_for_status raises for 4xx and 5xx only.
raise_for_status_raises(status) == status >= 400

\* upload_image is called with a public URL of the store, or with none (0).
InitIg ==
    /\ HandlerIdle
    /\ probe = NoProbe
    /\ shutdown = NoShutdown
    /\ ig \in { [NoIg EXCEPT !.pc = "called", !.url = u] : u \in 0..MaxEvents }

IgRequest(endpoint, image_url, creation_id) ==
    [endpoint |-> endpoint, image_url |-> image_url, creation_id |-> creation_id]

\* upload_image up to the container request: ValueError without a URL.
IgCall ==
    /\ ig.pc = "called"
    /\ IF ig.url = 0
       THEN ig' = [ig EXCEPT !.pc = "raised", !.error = "ValueError"]
       ELSE ig' = [ig EXCEPT !.pc = "container_sent",
                             !.requests = <<IgRequest("media", ig.url, 0)>>]
    /\ UNCHANGED <<handler, probe, shutdown>>

\* _create_image_container from the answer on: "if status_code != 200: log,
\* raise_for_status()", then resp.json()["id"]; upload_image then sleeps and
\* sends the publish request with the id.
IgContainerAnswer ==
    /\ ig.pc = "container_sent"
    /\ \E status \in HttpStatuses, id \in BodyIds :
         LET answered == [ig EXCEPT !.container_status = status, !.container_id = id]
         IN  IF status # 200 /\ raise_for_status_raises(status)
             THEN ig' = [answered EXCEPT !.pc = "raised", !.error = "HTTPError"]
             ELSE IF id = 0
             THEN ig' = [answered EXCEPT !.pc = "raised", !.error = "KeyError"]
             ELSE ig' = [answered EXCEPT
                           !.pc = "publish_sent",
                           !.requests = Append(@, IgRequest("media_publish", 0, id))]
    /\ UNCHANGED <<handler, probe, shutdown>>

\* _publish_media from the answer on; upload_image returns the JSON body.
IgPublishAnswer ==
    /\ ig.pc = "publish_sent"
    /\ \E status \in HttpStatuses, id \in BodyIds :
         LET answered == [ig EXCEPT !.publish_status = status]
         IN  IF status # 200 /\ raise_for_status_raises(status)
             THEN ig' = [answered EXCEPT !.pc = "raised", !.error = "HTTPError"]
             ELSE ig' = [answered EXCEPT !.pc = "returned", !.result_id = id]
    /\ UNCHANGED <<handler, probe, shutdown>>

NextIg ==
    \/ IgCall
    \/ IgContainerAnswer
    \/ IgPublishAnswer

SpecIg == InitIg /\ [][NextIg]_vars

\* ------------------------------------------------------------------- stop
InitStop ==
    /\ HandlerIdle
    /\ probe = NoProbe
    /\ ig = NoIg
    /\ shutdown = NoShutdown

StopGoto(c, where) == [shutdown.pc EXCEPT ![c] = where]

\* A task calls stop() (again, once its earlier call is over).
StopCall(c) ==
    /\ shutdown.pc[c] \in { "idle", "returned", "raised" }
    /\ shutdown.calls < MaxStopCalls
    /\ shutdown' = [shutdown EXCEPT !.pc = StopGoto(c, "acquire"), !.calls = @ + 1]
    /\ UNCHANGED <<handler, probe, ig>>

\* "async with self.shutdown_lock": the lock is taken when it is free.
StopAcquire(c) ==
    /\ shutdown.pc[c] = "acquire"
    /\ shutdown.lock = 0
    /\ shutdown' = [shutdown EXCEPT !.pc = StopGoto(c, "locked"), !.lock = c]
    /\ UNCHANGED <<handler, probe, ig>>

\* Mutant: the flag is not looked at.
already_stopped_never(flag) == FALSE

\* "if self.stopped: return"
already_stopped(flag) == flag

\* The body of the with block; leaving it releases the lock.
StopCheck(c) ==
    /\ shutdown.pc[c] = "locked"
    /\ IF already_stopped(shutdown.stopped)
       THEN shutdown' = [shutdown EXCEPT !.pc = StopGoto(c, "returned"), !.lock = 0]
       ELSE shutdown' = [shutdown EXCEPT !.pc = StopGoto(c, "set_event"),
                                         !.lock = 0, !.stopped = TRUE]
    /\ UNCHANGED <<handler, probe, ig>>

\* self.shutdown_event.set()
StopSetEvent(c) ==
    /\ shutdown.pc[c] = "set_event"
    /\ shutdown' = [shutdown EXCEPT !.pc = StopGoto(c, "stop_subscriber"),
                                    !.event_set_by = Append(@, c)]
    /\ UNCHANGED <<handler, probe, ig>>

\* "if self.subscriber: await self.subscriber.stop()"; the subscriber exists
\* once start() has run; its stop may raise.
StopSubscriber(c) ==
    /\ shutdown.pc[c] = "stop_subscriber"
    /\ IF ~started
       THEN shutdown' = [shutdown EXCEPT !.pc = StopGoto(c, "close_redis")]
       ELSE \E ok \in BOOLEAN :
              shutdown' = [shutdown EXCEPT
                             !.pc = StopGoto(c, IF ok THEN "close_redis" ELSE "raised"),
                             !.subscriber_stopped_by = Append(@, c)]
    /\ UNCHANGED <<handler, probe, ig>>

\* await redis.close_redis()
StopCloseRedis(c) ==
    /\ shutdown.pc[c] = "close_redis"
    /\ \E ok \in BOOLEAN :
         shutdown' = [shutdown EXCEPT
                        !.pc = StopGoto(c, IF ok THEN "returned" ELSE "raised"),
                        !.redis_closed_by = Append(@, c)]
    /\ UNCHANGED <<handler, probe, ig>>

StopStep(c) ==
    \/ StopCall(c)
    \/ StopAcquire(c)
    \/ StopCheck(c)
    \/ StopSetEvent(c)
    \/ StopSubscriber(c)
    \/ StopCloseRedis(c)

NextStop ==
    \/ Start
    \/ \E c \in Stoppers : StopStep(c)

SpecStop == InitStop /\ [][NextStop]_vars

\* ==================================================================== claims
Entries(r, op) == { i \in DOMAIN calls[r] : calls[r][i].op = op }
Made(r, op) == Entries(r, op) # {}
Handling(r) == pc[r] # "idle"

\* The eligibility of an envelope, as the data model of the events states it.
EligibleJob(p) ==
    /\ p.type = "job_vacancy"
    /\ p.extracted_data.present /\ p.extracted_data.is_job_vacancy
    /\ p.image.kind # "none"

VideoEvent(p) == p.type = "video_ready" /\ p.video_path # <<>>

\* can_post_today answered for this event, and what it answered.
QuotaDenied(r) ==
    \E i \in Entries(r, "redis_get") :
        calls[r][i].res = "ok" /\ calls[r][i].n >= DAILY_LIMIT
QuotaGranted(r) ==
    \E i \in Entries(r, "redis_get") :
        calls[r][i].res = "ok" /\ calls[r][i].n < DAILY_LIMIT

\* -------------------------------------------------------------------- C1
\* C1: increment_daily_post is called only after upload_image of the same
\* event returned a result with a media id; never after an exception, an
\* answer without id, a skipped publish or a dropped event.  So the number
\* of increments never exceeds the number of confirmed publishes.
C1_IncrementOnlyAfterConfirmedPublish ==
    /\ increments <= confirmed
    /\ \A r \in Runs :
         /\ \A i \in Entries(r, "redis_incr") :
              \E j \in Entries(r, "upload_image") :
                  j < i /\ calls[r][j].res = "id"
         /\ pc[r] = "incr" =>
              \E j \in Entries(r, "upload_image") : calls[r][j].res = "id"
         /\ (pc[r] = "done" /\ loc[r].outcome \in
                { "dropped", "limit", "raised", "store_failed", "skipped",
                  "publish_failed", "no_media_id" })
               => ~Made(r, "redis_incr")

C1_Witness ==
    \E r \in Runs :
        /\ pc[r] = "done"
        /\ Made(r, "redis_incr")
        /\ increments = confirmed
        /\ increments >= 1

\* -------------------------------------------------------------------- C2
\* C2: when can_post_today answers false the event is dropped: the image is
\* neither inspected nor replaced, nothing is uploaded to storage, nothing is
\* published, and the step that drops the event leaves the counter alone.
C2_DroppedState ==
    \A r \in Runs :
        QuotaDenied(r) =>
            /\ pc[r] = "done"
            /\ loc[r].outcome = "limit"
            /\ Len(calls[r]) = 1
            /\ loc[r].image_base64 = payload[r].image
            /\ loc[r].image_url = 0

C2_DropStep ==
    \A r \in Runs :
        (pc[r] = "quota_check" /\ pc'[r] = "done") =>
            /\ store' = store
            /\ increments' = increments
            /\ objects' = objects

C2_QuotaDeniedDrops == []C2_DroppedState /\ [][C2_DropStep]_vars

C2_Witness ==
    \E r \in Runs :
        /\ QuotaDenied(r)
        /\ pc[r] = "done"
        /\ store[today_key].count = DAILY_LIMIT

\* -------------------------------------------------------------------- C3
\* C3: an envelope that is neither video_ready nor an eligible job vacancy
\* ends dropped, without an exception and without any external call.
C3_IneligibleDropped ==
    \A r \in Runs :
        (Handling(r) /\ payload[r].type # "video_ready" /\ ~EligibleJob(payload[r])) =>
            /\ pc[r] = "done"
            /\ loc[r].outcome = "dropped"
            /\ calls[r] = <<>>

C3_Witness ==
    \E r \in Runs :
        /\ pc[r] = "done"
        /\ payload[r].type = "job_vacancy"
        /\ payload[r].extracted_data.present
        /\ ~payload[r].extracted_data.is_job_vacancy
        /\ payload[r].image.kind = "image"
        /\ loc[r].outcome = "dropped"

\* -------------------------------------------------------------------- C4
\* C4: for a video_ready event with a path, clean_video is called exactly
\* once, after the upload attempt (if any) has ended, whether the upload
\* succeeded, raised or had no uploader; a failing clean_video does not leave
\* the handler as an exception.
C4_CleanupOnce ==
    \A r \in Runs :
        (Handling(r) /\ VideoEvent(payload[r]) /\ storage) =>
            /\ Cardinality(Entries(r, "clean_video")) <= 1
            /\ pc[r] = "video_upload" => ~Made(r, "clean_video")
            /\ \A i \in Entries(r, "clean_video") :
                   /\ calls[r][i].path = payload[r].video_path
                   /\ \A j \in Entries(r, "upload_video") : j < i
            /\ pc[r] = "done" =>
                   /\ Cardinality(Entries(r, "clean_video")) = 1
                   /\ loc[r].outcome # "raised"

C4_Witness ==
    \E r \in Runs :
        /\ pc[r] = "done"
        /\ VideoEvent(payload[r])
        /\ \E j \in Entries(r, "upload_video") : calls[r][j].res # "id"
        /\ \E i \in Entries(r, "clean_video") : calls[r][i].res = "RuntimeError"

\* -------------------------------------------------------------------- C5
\* C5: for a video_ready event with a path and an Instagram uploader, the
\* container request for the video URL is issued by upload_video, before
\* clean_video deletes the object.
C5_VideoPublished ==
    \A r \in Runs :
        (pc[r] = "done" /\ VideoEvent(payload[r]) /\ ig_uploader) =>
            \E i \in Entries(r, "upload_video") :
                /\ calls[r][i].path = payload[r].video_path
                /\ calls[r][i].reqs # <<>>
                /\ calls[r][i].reqs[1] = "media"
                /\ \A j \in Entries(r, "clean_video") : i < j

\* -------------------------------------------------------------------- C6
\* C6: an exception of a publish call stays inside the handler: after a
\* failed upload_video the cleanup is still called, and after a failed
\* upload_image or upload_video the handler returns normally.
FailedPublish(r, op) ==
    \E i \in Entries(r, op) : calls[r][i].res \notin { "id", "noid" }

C6_FailureIsolation ==
    \A r \in Runs :
        /\ (FailedPublish(r, "upload_video") /\ pc[r] = "done") =>
              /\ loc[r].outcome # "raised"
              /\ storage =>
                    \E j \in Entries(r, "clean_video") :
                        \A i \in Entries(r, "upload_video") : i < j
        /\ FailedPublish(r, "upload_video") =>
              pc[r] \in { "video_cleanup", "quota_check", "done" }
        /\ FailedPublish(r, "upload_image") =>
              /\ pc[r] = "done"
              /\ loc[r].outcome = "publish_failed"

C6_Witness ==
    \E r \in Runs :
        /\ pc[r] = "done"
        /\ FailedPublish(r, "upload_video")
        /\ \E j \in Entries(r, "clean_video") : calls[r][j].res = "deleted"

\* -------------------------------------------------------------------- C7
\* C7: upload_image is never called before upload_base64_image of the same
\* event has returned a URL, and it is called with exactly that URL.
C7_UploadBeforePublish ==
    \A r \in Runs :
        \A i \in Entries(r, "upload_image") :
            /\ calls[r][i].url # 0
            /\ \E j \in Entries(r, "upload_base64_image") :
                   /\ j < i
                   /\ calls[r][j].res = "ok"
                   /\ calls[r][j].url = calls[r][i].url

C7_Witness ==
    \E r \in Runs :
        \E i \in Entries(r, "upload_image") :
            /\ calls[r][i].res = "id"
            /\ calls[r][i].url = 2

\* -------------------------------------------------------------------- C8
\* C8: when get_image_info or process_base64_image fails for an eligible
\* event that passed the quota check, the handler still calls the storage
\* upload, and with the original image content.
AdaptationFails(img) ==
    \/ get_image_info(img).empty
    \/ \E res \in process_base64_image(img) : ~res.ok

C8_AdaptationNonFatal ==
    \A r \in Runs :
        (EligibleJob(payload[r]) /\ QuotaGranted(r) /\ storage
            /\ AdaptationFails(payload[r].image)) =>
            /\ pc[r] \in { "inspect", "normalize", "store" } =>
                   /\ loc[r].image_base64 = payload[r].image
                   /\ loc[r].outcome = "none"
            /\ pc[r] \in { "publish", "incr", "expire", "done" } =>
                   \E i \in Entries(r, "upload_base64_image") :
                       calls[r][i].body = payload[r].image

C8_Witness ==
    \E r \in Runs :
        /\ EligibleJob(payload[r])
        /\ payload[r].image.kind = "garbage"
        /\ pc[r] = "publish"
        /\ \E i \in Entries(r, "upload_base64_image") :
               calls[r][i].res = "ok" /\ calls[r][i].body = payload[r].image

\* -------------------------------------------------------------------- C9
\* C9, as stated: after a failed storage upload the destinations that need
\* the URL are not called and the counter is untouched, while a destination
\* that takes the raw content (FacebookUploader.upload_image) is still
\* attempted before the handler ends.
StorageFailed(r) ==
    \E i \in Entries(r, "upload_base64_image") : calls[r][i].res = "error"

C10_IncrementsCountUp ==
    \A k \in Days :
        /\ \A i \in DOMAIN incr_returns[k] : incr_returns[k][i] = i
        /\ \/ store[k].count = Len(incr_returns[k])
           \/ /\ store[k] = NoKey
              /\ ttl_set_by[k] # <<>>
              /\ now >= (k + 1) * DayLen
        /\ Len(ttl_set_by[k]) <= 1
        /\ \A i \in DOMAIN ttl_set_by[k] : ttl_set_by[k][i] = 1
        /\ \A r \in Runs :
              (pc[r] = "done" /\ loc[r].outcome = "published"
                  /\ loc[r].key = k /\ loc[r].count = 1) => ttl_set_by[k] = <<1>>

C10_Witness ==
    \E r1, r2 \in Runs :
        /\ r1 # r2
        /\ pc[r1] = "expire"
        /\ loc[r1].count = 1
        /\ pc[r2] = "done"
        /\ loc[r2].outcome = "published"
        /\ loc[r2].count = 2
        /\ loc[r2].key = loc[r1].key


\* ------------------------------------------------------------------- C11
\* C11: can_post_today answers true exactly when the count stored under
\* today's key is below DAILY_LIMIT, a missing key counting as 0; it answers
\* false once the count has reached the limit; and the step that asks leaves
\* every key, its count and its expiry as they were.
C11_CheckStep ==
    \A r \in Runs :
        ( /\ pc[r] = "quota_check"
          /\ pc'[r] # "quota_check"
          /\ calls'[r][Len(calls'[r])].res = "ok" )
        => LET stored == IF store[today_key] = NoKey THEN 0
                         ELSE store[today_key].count
           IN  /\ calls'[r][Len(calls'[r])].n = stored
               /\ (pc'[r] = "inspect") <=> (stored < DAILY_LIMIT)
               /\ (pc'[r] = "done" /\ loc'[r].outcome = "limit")
                      <=> (stored >= DAILY_LIMIT)
               /\ store' = store

C11_CanPostTodayIsAReadOnlyComparison == [][C11_CheckStep]_vars

C11_Witness ==
    \E r \in Runs :
        /\ pc[r] = "inspect"
        /\ store[today_key].count = DAILY_LIMIT - 1
        /\ store[today_key].ttl
        /\ \E i \in Entries(r, "redis_get") :
               calls[r][i].res = "ok" /\ calls[r][i].n = DAILY_LIMIT - 1


\* ------------------------------------------------------------------- C12
\* C12: the check and the increment act as one atomic check-and-increment:
\* even when handler runs overlap on one day key, the count of a key never
\* exceeds DAILY_LIMIT.
C12_CounterNeverExceedsLimit ==
    \A k \in Days : store[k].count <= DAILY_LIMIT


\* ------------------------------------------------------------------- C13
\* C13: within one UTC day the count of that day's key never goes down: the
\* TTL is set 24 hours after the moment of the first increment, so a key with
\* a TTL expires no earlier than the end of its own day, and no step taken
\* while the day of a key is current lowers the count of that key.
C13_KeyOutlivesItsDay ==
    \A k \in Days : store[k].ttl => store[k].exp >= (k + 1) * DayLen

C13_CountStep ==
    \A k \in Days :
        (today_key = k /\ today_key' = k) => store'[k].count >= store[k].count

C13_CountMonotoneWithinDay ==
    []C13_KeyOutlivesItsDay /\ [][C13_CountStep]_vars

C13_Witness ==
    \E k \in Days :
        /\ today_key = k
        /\ store[k].count >= 2
        /\ store[k].ttl
        /\ store[k].exp > (k + 1) * DayLen
        /\ now = (k + 1) * DayLen - 1


\* ------------------------------------------------------------------- C14
\* C14: when redis.expire fails after the first increment of a day,
\* increment_daily_post still returns the count 1 and the handler ends the
\* event as it does after a successful increment, not as a failed publish.
ExpireFailed(r) ==
    \E i \in Entries(r, "redis_expire") : calls[r][i].res = "error"

C14_FailedExpireIsSoft ==
    \A r \in Runs :
        (pc[r] = "done" /\ ExpireFailed(r)) => loc[r].outcome = "published"


\* ------------------------------------------------------------------- C15
\* C15: when Redis fails while can_post_today is evaluated, the attempt stops
\* there: the exception reaches the caller of the handler, the quota is not
\* taken as available, the read is not repeated, and neither the storage
\* upload nor the publish is called for the event.
QuotaReadFailed(r) ==
    \E i \in Entries(r, "redis_get") : calls[r][i].res = "error"

C15_QuotaFailureIsHardStop ==
    \A r \in Runs :
        QuotaReadFailed(r) =>
            /\ pc[r] = "done"
            /\ loc[r].outcome = "raised"
            /\ Cardinality(Entries(r, "redis_get")) = 1
            /\ ~Made(r, "upload_base64_image")
            /\ ~Made(r, "upload_image")
            /\ ~Made(r, "redis_incr")
            /\ loc[r].image_url = 0

C15_Witness ==
    \E r \in Runs :
        /\ QuotaReadFailed(r)
        /\ EligibleJob(payload[r])
        /\ storage /\ ig_uploader
        /\ store[today_key].count < DAILY_LIMIT


\* ------------------------------------------------------------------- C16
\* C16: for one event every stage is attempted at most once: one quota read,
\* one storage upload, one publish call per destination (and within it each
\* request once), one increment, one cleanup; a failure of a stage is never
\* followed by a second attempt of a stage of the same event.
StageOps ==
    { "redis_get", "upload_base64_image", "upload_image", "redis_incr",
      "redis_expire", "upload_video", "clean_video" }

NoRepeat(seq) ==
    \A i, j \in DOMAIN seq : seq[i] = seq[j] => i = j

C16_AtMostOnce ==
    \A r \in Runs :
        /\ \A op \in StageOps : Cardinality(Entries(r, op)) <= 1
        /\ \A i \in DOMAIN calls[r] :
              /\ calls[r][i].op \in StageOps
              /\ NoRepeat(calls[r][i].reqs)

C16_Witness ==
    \E r \in Runs :
        /\ pc[r] = "done"
        /\ loc[r].outcome = "publish_failed"
        /\ Cardinality(Entries(r, "upload_base64_image")) = 1
        /\ \E i \in Entries(r, "upload_image") :
              /\ calls[r][i].res = "publish_failed"
              /\ Len(calls[r][i].reqs) = 2


\* ------------------------------------------------------------------- C17
\* C17: for an eligible job vacancy whose image has a ratio within
\* [0.8, 1.91], with quota available and every external call succeeding, the
\* image is never processed (the bytes stored are the bytes received), the
\* storage upload and the publish are each called exactly once, and the
\* count of the day goes up by exactly 1.
ValidImageJob(p) ==
    /\ EligibleJob(p)
    /\ p.image.kind = "image"
    /\ 80 * p.image.h <= 100 * p.image.w
    /\ 100 * p.image.w <= 191 * p.image.h

C17_State ==
    \A r \in Runs :
        ValidImageJob(payload[r]) =>
            /\ pc[r] # "normalize"
            /\ (pc[r] = "done" /\ loc[r].outcome = "published") =>
                  /\ Cardinality(Entries(r, "upload_base64_image")) = 1
                  /\ \A i \in Entries(r, "upload_base64_image") :
                        /\ calls[r][i].body = payload[r].image
                        /\ ~calls[r][i].body.adapted
                  /\ Cardinality(Entries(r, "upload_image")) = 1
                  /\ Cardinality(Entries(r, "redis_incr")) = 1

C17_CountStep ==
    \A r \in Runs :
        /\ ( /\ pc[r] = "incr"
             /\ pc'[r] # "incr"
             /\ calls'[r][Len(calls'[r])].res = "ok" )
           => /\ store'[today_key].count = store[today_key].count + 1
              /\ \A k \in Days \ { today_key } : store'[k] = store[k]
        /\ (pc[r] = "expire" /\ pc'[r] # "expire")
           => \A k \in Days : store'[k].count = store[k].count

C17_ValidImageHappyPath == []C17_State /\ [][C17_CountStep]_vars

C17_Witness ==
    \E r \in Runs :
        /\ ValidImageJob(payload[r])
        /\ image_processor
        /\ pc[r] = "done"
        /\ loc[r].outcome = "published"
        /\ store[loc[r].key].count = DAILY_LIMIT


\* ------------------------------------------------------------------- C18
\* C18: get_image_info reports an image of positive width and height valid
\* exactly when 0.8 <= width / height <= 1.91; a ratio of exactly 0.8 (4:5)
\* and a ratio of exactly 1.91 (191:100) are valid.
Inspected == probe.stage \in { "inspected", "sized", "padded" }

C18_ValidIffRatioInRange ==
    Inspected =>
        /\ probe.valid <=> (80 * probe.h <= 100 * probe.w /\ 100 * probe.w <= 191 * probe.h)
        /\ 5 * probe.w = 4 * probe.h => probe.valid
        /\ 100 * probe.w = 191 * probe.h => probe.valid

C18_Witness ==
    /\ Inspected
    /\ probe.w = 191 /\ probe.h = 100
    /\ probe.valid

\* ------------------------------------------------------------------- C19
\* C19: in "auto" mode every ratio r falls in exactly one of the four bands
\* r < 0.95, 0.95 <= r <= 1.05, 1.05 < r <= 1.91 and r > 1.91; the canvas is
\* 1080x1350 for r < 0.95 and 1080x1080 for 0.95 <= r <= 1.05, both ends
\* included, and for no other ratio.
BandPortrait == 100 * probe.w < 95 * probe.h
BandSquare == 95 * probe.h <= 100 * probe.w /\ 100 * probe.w <= 105 * probe.h
BandLandscape == 105 * probe.h < 100 * probe.w /\ 100 * probe.w <= 191 * probe.h
BandWide == 191 * probe.h < 100 * probe.w

C19_PortraitAndSquareBands ==
    probe.stage \in { "sized", "padded" } =>
        /\ Cardinality({ b \in { "p", "s", "l", "w" } :
                           \/ b = "p" /\ BandPortrait
                           \/ b = "s" /\ BandSquare
                           \/ b = "l" /\ BandLandscape
                           \/ b = "w" /\ BandWide }) = 1
        /\ probe.tw = INSTAGRAM_WIDTH
        /\ BandPortrait <=> probe.th = INSTAGRAM_PORTRAIT_HEIGHT
        /\ BandSquare <=> probe.th = INSTAGRAM_SQUARE_HEIGHT

C19_Witness ==
    /\ probe.stage = "sized"
    /\ probe.w = 95 /\ probe.h = 100
    /\ probe.tw = 1080 /\ probe.th = 1080

\* ------------------------------------------------------------------- C20
\* C20: in "auto" mode, for 1.05 < r <= 1.91 the canvas is 1080 wide and its
\* height is 1080 * height / width rounded to the nearest integer.
C20_LandscapeHeightRounded ==
    (probe.stage = "sized" /\ BandLandscape) =>
        /\ probe.tw = INSTAGRAM_WIDTH
        /\ probe.th = (2 * INSTAGRAM_WIDTH * probe.h + probe.w) \div (2 * probe.w)


\* ------------------------------------------------------------------- C21
\* C21: for an eligible job vacancy whose image is wider than 1.91:1 the
\* image processor is called, it returns a canvas of exactly 1080x565, and
\* the content handed to the storage upload is that canvas, not the original.
WideImageJob(p) ==
    /\ EligibleJob(p)
    /\ p.image.kind = "image"
    /\ 100 * p.image.w > 191 * p.image.h

Canvas565 == [kind |-> "image", w |-> 1080, h |-> 565, adapted |-> TRUE]

C21_Step ==
    \A r \in Runs :
        WideImageJob(payload[r]) =>
            /\ (pc[r] = "inspect" /\ pc'[r] # "inspect" /\ image_processor)
                   => pc'[r] = "normalize"
            /\ (pc[r] = "normalize" /\ pc'[r] # "normalize")
                   => pc'[r] = "store" /\ loc'[r].image_base64 = Canvas565
            /\ (pc[r] = "store" /\ calls'[r] # calls[r])
                   => calls'[r][Len(calls'[r])].body = loc[r].image_base64

C21_State ==
    \A r \in Runs :
        (WideImageJob(payload[r]) /\ loc[r].image_base64.adapted) =>
            /\ loc[r].image_base64 = Canvas565
            /\ \A i \in Entries(r, "upload_base64_image") :
                   calls[r][i].body = Canvas565

VideoWithoutPath(p) == p.type = "video_ready" /\ p.video_path = <<>>

C22_State ==
    \A r \in Runs :
        (Handling(r) /\ VideoWithoutPath(payload[r])) =>
            /\ pc[r] = "done"
            /\ loc[r].outcome = "dropped"
            /\ \A op \in StageOps : ~Made(r, op)
            /\ loc[r].video_url = <<>>

C22_Step ==
    \A r \in Runs :
        (VideoWithoutPath(payload'[r]) /\ received' # received /\ pc'[r] # "idle")
        => store' = store /\ objects' = objects

C22_VideoWithoutPathDropped == []C22_State /\ [][C22_Step]_vars

C22_Witness ==
    \E r \in Runs :
        /\ VideoWithoutPath(payload[r])
        /\ pc[r] = "done"
        /\ loc[r].outcome = "dropped"
        /\ storage /\ ig_uploader


\* ------------------------------------------------------------------- C23
\* C23: clean_video fails without a delete request whenever the URL is not a
\* URL under the public base of the store; and whenever a delete request is
\* issued, its key is not empty and is the URL without the leading
\* public base and "/".
BelongsToStore(url) == StartsWith(url, public_base \o <<"/">>)

C23_DeleteOnlyOwnObjects ==
    \A r \in Runs :
        \A i \in Entries(r, "clean_video") :
            LET c == calls[r][i]
            IN  /\ ~BelongsToStore(c.path) =>
                      c.res = "ValueError" /\ c.reqs = <<>>
                /\ c.reqs # <<>> =>
                      /\ c.objkey # <<>>
                      /\ c.path = public_base \o <<"/">> \o c.objkey


\* ------------------------------------------------------------------- C24
\* C24: for every image of positive width and height and the target size
\* "auto" mode chooses for it, the scaled image is at least 1x1 and fits the
\* target, the paste offsets are not negative and centre it (the two margins
\* of an axis differ by at most 1), and the canvas has exactly the target
\* size.
C24_PadFitsAndCentres ==
    probe.stage = "padded" =>
        LET right == probe.tw - probe.new_width - probe.paste_x
            below == probe.th - probe.new_height - probe.paste_y
        IN  /\ probe.new_width >= 1 /\ probe.new_height >= 1
            /\ probe.new_width <= probe.tw /\ probe.new_height <= probe.th
            /\ probe.paste_x >= 0 /\ probe.paste_y >= 0
            /\ right - probe.paste_x \in { 0, 1 }
            /\ below - probe.paste_y \in { 0, 1 }
            /\ probe.canvas_w = probe.tw /\ probe.canvas_h = probe.th


\* ------------------------------------------------------------------- C25
\* C25: whenever the processing of a job vacancy image succeeds, the image
\* handed to the storage upload (and so to the publish) has a ratio within
\* [0.8, 1.91], for sources below 0.8 and for sources above 1.91.
C25_AdaptedImageIsValid ==
    \A r \in Runs :
        /\ loc[r].image_base64.adapted =>
               /\ 80 * loc[r].image_base64.h <= 100 * loc[r].image_base64.w
               /\ 100 * loc[r].image_base64.w <= 191 * loc[r].image_base64.h
        /\ \A i \in Entries(r, "upload_base64_image") :
               calls[r][i].body.adapted =>
                   get_image_info(calls[r][i].body).is_valid_for_instagram


\* ------------------------------------------------------------------- C26
\* C26: with one event handled at a time, whatever the events and their
\* outcomes and whenever the day changes, no day key ever counts more than
\* DAILY_LIMIT posts: its value stays at most DAILY_LIMIT and it is
\* incremented at most DAILY_LIMIT times.
C26_SequentialLimit ==
    \A k \in Days :
        /\ store[k].count <= DAILY_LIMIT
        /\ Len(incr_returns[k]) <= DAILY_LIMIT
        /\ \A i \in DOMAIN incr_returns[k] : incr_returns[k][i] <= DAILY_LIMIT

C26_Witness ==
    \E k \in Days :
        /\ Len(incr_returns[k]) = DAILY_LIMIT
        /\ store[k].count = DAILY_LIMIT
        /\ received = MaxEvents
        /\ pc[1] = "done"
        /\ loc[1].outcome = "limit"


\* ------------------------------------------------------------------- C27
\* C27, as stated: for a published job vacancy the key incremented is the key
\* whose count can_post_today examined for the event, also when the UTC date
\* changes between the check and the increment.
C27_SameKeyExaminedAndIncremented ==
    \A r \in Runs :
        \A i \in Entries(r, "redis_get") : \A j \in Entries(r, "redis_incr") :
            calls[r][i].key = calls[r][j].key

\* C27, amended: each of the two calls derives its key from the UTC date at
\* the moment it runs.  The key incremented is the key of the date of the
\* increment: it is the key examined when the date did not change in
\* between, and the key of the later day when it did; no other key is
\* touched by the increment.
C27_KeyStep ==
    \A r \in Runs :
        /\ (pc[r] = "quota_check" /\ pc'[r] # "quota_check")
              => calls'[r][Len(calls'[r])].key = now \div DayLen
        /\ (pc[r] = "incr" /\ pc'[r] # "incr")
              => /\ calls'[r][Len(calls'[r])].key = now \div DayLen
                 /\ \A k \in Days \ { now \div DayLen } : store'[k] = store[k]

C27_KeyState ==
    \A r \in Runs :
        \A i \in Entries(r, "redis_get") : \A j \in Entries(r, "redis_incr") :
            /\ calls[r][i].key <= calls[r][j].key
            /\ calls[r][j].key <= now \div DayLen

C27_KeyIsDateOfEachCall == []C27_KeyState /\ [][C27_KeyStep]_vars

C27_Witness ==
    \E r \in Runs :
        /\ pc[r] = "done"
        /\ loc[r].outcome = "published"
        /\ \E i \in Entries(r, "redis_get") : \E j \in Entries(r, "redis_incr") :
               /\ calls[r][i].key = 0
               /\ calls[r][j].key = 1
               /\ calls[r][j].res = "ok"


\* ------------------------------------------------------------------- C28
\* C28: a video_ready event never enters the image pipeline: once its video
\* branch is over the handler reaches the job vacancy validation and the
\* event is dropped there, whatever else the envelope carries; the quota is
\* neither read nor incremented, no image is uploaded to storage and
\* upload_image is not called.
ImageOps == { "redis_get", "upload_base64_image", "upload_image", "redis_incr",
              "redis_expire" }

C28_VideoLeavesImagePipelineAlone ==
    \A r \in Runs :
        (Handling(r) /\ payload[r].type = "video_ready") =>
            /\ pc[r] \in { "video_upload", "video_cleanup", "done" }
            /\ \A op \in ImageOps : ~Made(r, op)
            /\ pc[r] = "done" => loc[r].outcome = "dropped"
            /\ loc[r].image_url = 0

C28_Witness ==
    \E r \in Runs :
        /\ payload[r].type = "video_ready"
        /\ payload[r].extracted_data.present
        /\ payload[r].extracted_data.is_job_vacancy
        /\ payload[r].image.kind = "image"
        /\ pc[r] = "done"
        /\ Made(r, "upload_video")
        /\ Made(r, "clean_video")


\* ------------------------------------------------------------------- C29
\* C29: upload_image sends the publish request only after the container
\* request was answered with status 200 and a creation id, and with exactly
\* that id; without a public image URL it raises before any request is sent;
\* and when the container creation fails no publish request is sent.
IgPublishRequests ==
    { i \in DOMAIN ig.requests : ig.requests[i].endpoint = "media_publish" }

C29_PublishOnlyAfterContainer200 ==
    /\ \A i \in IgPublishRequests :
          /\ i = 2
          /\ ig.requests[1].endpoint = "media"
          /\ ig.requests[1].image_url = ig.url
          /\ ig.container_status = 200
          /\ ig.container_id # 0
          /\ ig.requests[i].creation_id = ig.container_id
    /\ (ig.url = 0 /\ ig.pc # "called") =>
          ig.pc = "raised" /\ ig.requests = <<>>
    /\ (ig.container_status # 0 /\ ig.container_status # 200) =>
          IgPublishRequests = {}


\* ------------------------------------------------------------------- C30
\* C30: however calls of stop() repeat and overlap, the shutdown event is
\* set, the subscriber stopped and the Redis connection closed at most once
\* each, all by one and the same caller: the one call that found the flag
\* unset; every other call returns without doing any of them.
ShutdownActors ==
    { shutdown.event_set_by[i] : i \in DOMAIN shutdown.event_set_by }
    \cup { shutdown.subscriber_stopped_by[i] : i \in DOMAIN shutdown.subscriber_stopped_by }
    \cup { shutdown.redis_closed_by[i] : i \in DOMAIN shutdown.redis_closed_by }
    \cup { c \in Stoppers :
             shutdown.pc[c] \in { "set_event", "stop_subscriber", "close_redis" } }

C30_StopIdempotent ==
    /\ Len(shutdown.event_set_by) <= 1
    /\ Len(shutdown.subscriber_stopped_by) <= 1
    /\ Len(shutdown.redis_closed_by) <= 1
    /\ Cardinality(ShutdownActors) <= 1
    /\ shutdown.stopped <=> Cardinality(ShutdownActors) = 1
    /\ shutdown.lock # 0 => shutdown.pc[shutdown.lock] = "locked"

C30_Witness ==
    \E c, d \in Stoppers :
        /\ c # d
        /\ started
        /\ shutdown.event_set_by = <<c>>
        /\ shutdown.pc[c] = "stop_subscriber"
        /\ shutdown.pc[d] = "returned"
        /\ shutdown.calls = MaxStopCalls

====
